---- MODULE Spec2Model ----
(***************************************************************************)
(* Session/stream orchestration of piotroxp/madellang (backend/):          *)
(*   audio_processor.py      AudioProcessor  (buffering, gating, mirror)   *)
(*   translation_service.py  TranslationService (fallback chain)           *)
(*   main.py                 websocket_endpoint and the HTTP endpoints     *)
(*                                                                         *)
(* Byte strings are sequences of segments: a segment names a frame (by     *)
(* its number among its sender's frames), an offset into it and a length,  *)
(* so every byte of a participant is identified by (frame, offset) and the *)
(* real sizes of the program                                               *)
(* (320000-byte cap, 8000-sample threshold) are kept.  Texts are           *)
(* sequences of string tokens; the token " " is whitespace.                *)
(***************************************************************************)
EXTENDS Integers, Sequences, FiniteSets, TLC

VARIABLES
    mirror_mode,    \* AudioProcessor.mirror_mode
    audio_buffers,  \* AudioProcessor.audio_buffers: buffer_key -> bytes
    pc,             \* per participant: where its process_audio_chunk call stands
    frame,          \* per participant: the locals of that call while it runs
    last,           \* per participant: how its last call went (history)
    ret,            \* per participant: what its last process_audio_chunk call returned
    stream,         \* per buffer key: every chunk appended since the last clear (history)
    inbox,          \* per connection: frames the transport holds for websocket.receive()
    loop,           \* per connection: state of websocket_endpoint
    sent,           \* per connection: what was sent on its websocket, in order
    dispatched,     \* per connection: results handed to room_manager.broadcast_translation
    target_lang,    \* per connection: the target_lang query parameter ("" before it connects)
    nextId,         \* per participant: the number of its next frame
    since,          \* per participant: tenths of a second since its last pipeline run started
    http,           \* the last exchange on an HTTP endpoint that was observed
    removed,        \* per connection: how often remove_participant was called for it
    owned           \* per (room id, user id) handed to the buffer methods: every chunk
                    \* appended for the pair since its last clear (history)

vars == <<mirror_mode, audio_buffers, pc, frame, last, ret, stream, inbox, loop,
          sent, dispatched, target_lang, nextId, since, http, removed, owned>>

----------------------------------------------------------------------------
(* Bounds of the model *)

\* frames (binary or text) that arrive in one behaviour
MaxFrames == 3
\* frames the transport holds for one connection at a time
MaxInbox == 1

(* Sets the inputs are drawn from *)

Participants == {"p1", "p2"}

\* uuid.uuid4().hex[:6]: what create_room may draw
Hex6 == {"a3f9c1", "0b77de"}

\* both participants sit in the same room, one that create_room named
room_id(p) == <<"room-", "a3f9c1">>

\* str(uuid.uuid4()) of the connection
user_id(p) == IF p = "p1" THEN <<"u", "1">> ELSE <<"u", "2">>

\* languages the speech model may detect
Langs == {"en", "es", "fr"}

\* target_lang query parameters: the privileged language and another one
TargetLangs == {"en", "es"}

\* lengths of binary frames: 2 bytes (half a sample), 0.3 s of float32 audio,
\* and more than the 5 s cap in one frame
ChunkLens == {2, 19200, 400000}

\* lengths of chunks around the threshold: 2 bytes (half a sample), and 2 bytes
\* less than 8000 samples
AlignLens == {2, 31998}

\* control frames: a ping, and a text that is no JSON
TextFrames == {"{\"type\": \"ping\"}", "ping"}

\* what the speech model may transcribe: nothing, whitespace, words
TranscribedTexts == {<<>>, <<" ">>, <<"hola">>}

\* what the speech model may give as translation into English
EnglishTexts == {<<>>, <<"hello">>}

\* the texts of translate-text requests
RequestTexts == {<<"hola">>, <<"hello">>}

\* an absent optional value (None, a missing key); <<v>> is a present one
Absent == <<>>

----------------------------------------------------------------------------
(* Byte strings *)

Seg(id, lo, n) == [id |-> id, lo |-> lo, n |-> n]

\* the bytes of frame id, n bytes long
Chunk(id, n) == IF n = 0 THEN <<>> ELSE <<Seg(id, 0, n)>>

\* len(b)
RECURSIVE ByteLen(_)
ByteLen(b) == IF b = <<>> THEN 0 ELSE Head(b).n + ByteLen(Tail(b))

\* b[-k:] for k > 0
RECURSIVE LastBytes(_, _)
LastBytes(b, k) ==
    IF b = <<>> THEN <<>>
    ELSE LET tail == b[Len(b)]
             init == SubSeq(b, 1, Len(b) - 1)
         IN  IF tail.n >= k
             THEN <<Seg(tail.id, tail.lo + tail.n - k, k)>>
             ELSE LastBytes(init, k - tail.n) \o <<tail>>

\* b[:k] for k > 0
RECURSIVE FirstBytes(_, _)
FirstBytes(b, k) ==
    IF b = <<>> THEN <<>>
    ELSE IF Head(b).n >= k
         THEN <<Seg(Head(b).id, Head(b).lo, k)>>
         ELSE <<Head(b)>> \o FirstBytes(Tail(b), k - Head(b).n)

Min(a, b) == IF a <= b THEN a ELSE b

----------------------------------------------------------------------------
(* Texts *)

\* str.isspace(): not empty and nothing but whitespace
isspace(t) == t # <<>> /\ \A i \in DOMAIN t : t[i] = " "

RECURSIVE lstrip(_)
lstrip(t) == IF t # <<>> /\ Head(t) = " " THEN lstrip(Tail(t)) ELSE t

RECURSIVE rstrip(_)
rstrip(t) ==
    IF t # <<>> /\ t[Len(t)] = " " THEN rstrip(SubSeq(t, 1, Len(t) - 1)) ELSE t

\* str.strip()
strip(t) == rstrip(lstrip(t))

StartsWith(t, s) == Len(s) <= Len(t) /\ SubSeq(t, 1, Len(s)) = s

\* s in t
RECURSIVE Contains(_, _)
Contains(t, s) ==
    \/ StartsWith(t, s)
    \/ t # <<>> /\ Contains(Tail(t), s)

\* t.replace(s, ""), for s not empty
RECURSIVE Remove(_, _)
Remove(t, s) ==
    IF t = <<>> THEN <<>>
    ELSE IF StartsWith(t, s) THEN Remove(SubSeq(t, Len(s) + 1, Len(t)), s)
    ELSE <<Head(t)>> \o Remove(Tail(t), s)

\* whisper.tokenizer.LANGUAGES.get(target_lang, "Unknown")
LanguageName(lang) ==
    CASE lang = "en" -> "english"
      [] lang = "es" -> "spanish"
      [] lang = "fr" -> "french"
      [] OTHER -> "Unknown"

\* f"Translate the following text to {language_name}: {text}"
Prompt(text, lang) ==
    <<"Translate the following text to ", LanguageName(lang), ": ">> \o text

\* what whisper.decode may generate for a prompt: nothing, a translation, or the
\* prompt echoed verbatim and followed by a translation
DecodeTexts(prompt) == {<<>>, <<"salut">>, prompt \o <<" ", "salut", " ">>}

----------------------------------------------------------------------------
(* AudioProcessor: the Stream Buffer *)

\* 5 seconds at 16kHz, 4 bytes per float32
max_buffer_size == 16000 * 4 * 5

\* if len(audio_np) < 8000
min_samples == 8000

\* self.min_process_interval = 0.5, in tenths of a second
min_process_interval == 5

\* f"{room_id}_{user_id}"
buffer_key(room, user) == room \o <<"_">> \o user

KeyOf(p) == buffer_key(room_id(p), user_id(p))

BufferKeys == {KeyOf(p) : p \in Participants}

\* room ids a client can put in the path /ws/{room_id}, one token a character:
\* any text without a slash, an underscore included
RoomPaths == {<<"a">>, <<"a", "_", "b", "-", "4">>}

\* user ids taken from the client: any text
ClientChosenIds == {<<"4">>, <<"b", "-", "4", "_", "4">>}

\* str(uuid.uuid4()), one token a character: hexadecimal digits and hyphens,
\* every one of the same length
Uuid4Strings == {<<"b", "-", "4">>, <<"4", "-", "b">>}

\* Trim that keeps the head: [:max_buffer_size] for [-max_buffer_size:]
TrimKeepsHead(b) ==
    IF ByteLen(b) > max_buffer_size THEN FirstBytes(b, max_buffer_size) ELSE b

\* self.audio_buffers[buffer_key][-max_buffer_size:] when the cap is exceeded
Trim(b) == IF ByteLen(b) > max_buffer_size THEN LastBytes(b, max_buffer_size) ELSE b

\* _add_to_buffer: the dictionary after the call and the bytes it returns
_add_to_buffer(buffers, room, user, audio_chunk) ==
    LET key == buffer_key(room, user)
        old == IF key \in DOMAIN buffers THEN buffers[key] ELSE <<>>
        new == Trim(old \o audio_chunk)
    IN  [buffers |-> (key :> new) @@ buffers, returned |-> new]

\* _clear_buffer: the dictionary after the call
_clear_buffer(buffers, room, user) ==
    LET key == buffer_key(room, user)
    IN  IF key \in DOMAIN buffers THEN (key :> <<>>) @@ buffers ELSE buffers

\* frombuffer that drops the bytes after the last whole sample
frombuffer_whole_samples(b) == [ok |-> TRUE, samples |-> ByteLen(b) \div 4]

\* np.frombuffer(complete_buffer, dtype=np.float32): a ValueError unless the
\* length is a whole number of 4-byte samples
frombuffer(b) ==
    IF ByteLen(b) % 4 = 0
    THEN [ok |-> TRUE, samples |-> ByteLen(b) \div 4]
    ELSE [ok |-> FALSE, samples |-> 0]

\* toggle_mirror_mode(enabled): the flag after the call; enabled is None or a boolean
toggle_mirror_mode(mode, enabled) ==
    IF enabled # Absent THEN enabled[1] ELSE ~mode

----------------------------------------------------------------------------
(* TranslationService *)

\* the dictionary transcribe_and_translate returns
Result(original, translated, detected) ==
    [original_text |-> original, translated_text |-> translated,
     detected_language |-> detected]

\* the except branch of transcribe_and_translate; source_lang is None here
FailedResult == Result(<<>>, <<>>, "en")

\* what a collaborator call does: it raises, or it returns a text (and, for a
\* transcription, maybe a language)
Raised == [raised |-> TRUE, text |-> <<>>, language |-> Absent]

Returned(text, language) == [raised |-> FALSE, text |-> text, language |-> language]

\* _prompt_translate whose except branch gives no text
_prompt_translate_empty_on_error(text, lang, decoded) ==
    LET prompt == Prompt(text, lang)
    IN  IF decoded.raised THEN <<>>
        ELSE IF Contains(decoded.text, prompt) THEN strip(Remove(decoded.text, prompt))
        ELSE decoded.text

\* _prompt_translate, given the outcome of whisper.decode
_prompt_translate(text, lang, decoded) ==
    LET prompt == Prompt(text, lang)
    IN  IF decoded.raised THEN text
        ELSE IF Contains(decoded.text, prompt) THEN strip(Remove(decoded.text, prompt))
        ELSE decoded.text

\* SameLanguage that compares the wrong variable: source_lang, None here
SameLanguageOfSource(detected, target) == Absent = <<target>>

\* if detected_lang == target_lang
SameLanguage(detected, target) == detected = target

\* AfterTranscribe without the test of line 86: English is translated into
\* English as well
AfterTranscribeAlwaysViaEnglish(detected, target) ==
    IF SameLanguage(detected, target) THEN "return"
    ELSE IF target # "en" THEN "to_english" ELSE "direct"

\* AfterTranscribe that sends a target of English to the prompt step
AfterTranscribePromptsEnglish(detected, target) ==
    IF SameLanguage(detected, target) THEN "return"
    ELSE IF detected # "en" /\ target # "en" THEN "to_english" ELSE "decode"

\* where transcribe_and_translate goes after the first transcription returned:
\* "return" (same language), "to_english", "decode" or "direct"
AfterTranscribe(detected, target) ==
    IF SameLanguage(detected, target) THEN "return"
    ELSE IF target # "en"
         THEN IF detected # "en" THEN "to_english" ELSE "decode"
         ELSE "direct"

----------------------------------------------------------------------------
(* State *)

\* the locals of process_audio_chunk and transcribe_and_translate
NoFrame ==
    [caller |-> "", complete_buffer |-> <<>>, samples |-> 0,
     original_text |-> <<>>, detected_lang |-> "", english_text |-> <<>>]

\* how a call went: the gate it took ("mirror", "ValueError", "short", "run"),
\* the bytes _add_to_buffer returned to it (until the buffer is cleared), the
\* collaborator calls it made in order, the text and the language the first
\* transcription gave ("" when it gave none), the text handed to
\* _prompt_translate, the text the direct translation gave (when it returned),
\* the call that raised, and what transcribe_and_translate returned
NoCall ==
    [gate |-> "", returned |-> <<>>, calls |-> <<>>, transcribed |-> <<>>,
     detected_lang |-> "", prompted |-> <<>>, translation |-> Absent, raised |-> "",
     result |-> [original_text |-> <<>>, translated_text |-> <<>>,
                 detected_language |-> ""]]

\* frames that have arrived so far, over all participants
RECURSIVE Count(_, _)
Count(ids, ps) ==
    IF ps = {} THEN 0
    ELSE LET p == CHOOSE q \in ps : TRUE
         IN  (ids[p] - 1) + Count(ids, ps \ {p})

Arrived == Count(nextId, Participants)

\* the values process_audio_chunk returns
ReturnsNone == [kind |-> "None"]

ReturnsBool(b) == [kind |-> "bool", value |-> b]

\* the translation_result dictionary of lines 131-137
TranslationResult(result, user) ==
    [kind |-> "dict", type |-> "translation_result",
     original_text |-> result.original_text,
     translated_text |-> result.translated_text,
     language |-> result.detected_language, user_id |-> user]

\* what is sent on a websocket
BytesMessage(b) == [kind |-> "bytes", bytes |-> b, type |-> ""]

JsonMessage(type) == [kind |-> "json", bytes |-> <<>>, type |-> type]

\* what the transport delivers;during_run records that the frame arrived while
\* a pipeline run of its participant was in flight (history)
BinaryFrame(b, during_run) ==
    [kind |-> "bytes", bytes |-> b, text |-> "", during_run |-> during_run]

TextFrame(t) == [kind |-> "text", bytes |-> <<>>, text |-> t, during_run |-> FALSE]

DisconnectFrame ==
    [kind |-> "disconnect", bytes |-> <<>>, text |-> "", during_run |-> FALSE]

\* the identity of the connection's WebSocket object
websocket(p) == IF p = "p1" THEN <<"ws", "1">> ELSE <<"ws", "2">>

\* str(e) of the TypeError the call of lines 136-141 raises
MissingArgument ==
    <<"AudioProcessor.process_audio_chunk() missing 1 required positional argument: ",
      "'websocket'">>

\* str(e) of the TypeError of "audio" in True
NotIterable == <<"argument of type 'bool' is not iterable">>

\* str(e) of the RuntimeError websocket.receive() raises after a disconnect message
ReceiveAfterDisconnect ==
    <<"Cannot call", " \"receive\" once a ", "disconnect", " message has been received.">>

\* no HTTP exchange observed yet; the fields of an exchange: the endpoint, its
\* query parameter or request body, the mirror flag and the live rooms before
\* the call, the prompt steps made, whether whisper.decode raised in one, the
\* status and the body of the response
NoExchange ==
    [request |-> "", query |-> Absent, before |-> Absent, text |-> <<>>,
     source_lang |-> "", target_lang |-> "", calls |-> <<>>, raised |-> FALSE,
     status |-> 0, mirror_mode |-> Absent, translated_text |-> <<>>, room_id |-> <<>>,
     live |-> {}]

Init ==
    /\ mirror_mode = TRUE
    /\ audio_buffers = <<>>
    /\ pc = [p \in Participants |-> "idle"]
    /\ frame = [p \in Participants |-> NoFrame]
    /\ last = [p \in Participants |-> NoCall]
    /\ ret = [p \in Participants |-> [kind |-> "never"]]
    /\ stream = [k \in BufferKeys |-> <<>>]
    /\ inbox = [p \in Participants |-> <<>>]
    /\ loop = [p \in Participants |-> "new"]
    /\ sent = [p \in Participants |-> <<>>]
    /\ dispatched = [p \in Participants |-> <<>>]
    /\ target_lang = [p \in Participants |-> ""]
    /\ nextId = [p \in Participants |-> 1]
    /\ since = [p \in Participants |-> 0]
    /\ http = NoExchange
    /\ removed = [p \in Participants |-> 0]
    /\ owned = <<>>

\* LoopBlocked of a pipeline that runs off the event loop's thread
LoopNeverBlocked == FALSE

\* the event loop's thread is inside a synchronous collaborator call
LoopBlocked == \E p \in Participants : pc[p] # "idle"

----------------------------------------------------------------------------
(* AudioProcessor.process_audio_chunk *)

\* the call returns value to its caller.  websocket_endpoint (lines 144-151)
\* hands a dictionary to room_manager.broadcast_translation; for True the test
\* "audio" in result raises a TypeError that line 158 catches.
Return(p, caller, value) ==
    /\ ret' = [ret EXCEPT ![p] = value]
    /\ dispatched' =
         IF caller = "endpoint" /\ value.kind = "dict"
         THEN [dispatched EXCEPT ![p] = Append(@, value)]
         ELSE dispatched

\* lines 92-121: from the entry to the first collaborator call
Begin(p, audio_chunk, caller) ==
    IF mirror_mode
    THEN \E ok \in BOOLEAN :
           /\ sent' = IF ok THEN [sent EXCEPT ![p] = Append(@, BytesMessage(audio_chunk))]
                            ELSE sent
           /\ Return(p, caller, ReturnsBool(ok))
           /\ last' = [last EXCEPT ![p] = [NoCall EXCEPT !.gate = "mirror"]]
           /\ UNCHANGED <<audio_buffers, stream, pc, frame, since>>
    ELSE LET added == _add_to_buffer(audio_buffers, room_id(p), user_id(p), audio_chunk)
             audio_np == frombuffer(added.returned)
             gate == IF ~audio_np.ok THEN "ValueError"
                     ELSE IF audio_np.samples < min_samples THEN "short"
                     ELSE "run"
         IN  /\ audio_buffers' = added.buffers
             /\ stream' = [stream EXCEPT ![KeyOf(p)] = @ \o audio_chunk]
             /\ sent' = sent
             /\ since' = IF gate = "run" THEN [since EXCEPT ![p] = 0] ELSE since
             /\ last' = [last EXCEPT ![p] =
                           [NoCall EXCEPT !.gate = gate,
                                          !.returned = added.returned,
                                          !.calls = IF gate = "run"
                                                    THEN <<"transcribe">> ELSE <<>>]]
             /\ IF gate = "run"
                THEN /\ pc' = [pc EXCEPT ![p] = "transcribe"]
                     /\ frame' = [frame EXCEPT ![p] =
                                    [NoFrame EXCEPT !.caller = caller,
                                                    !.complete_buffer = added.returned,
                                                    !.samples = audio_np.samples]]
                     /\ UNCHANGED <<ret, dispatched>>
                ELSE /\ UNCHANGED <<pc, frame>>
                     /\ Return(p, caller, ReturnsNone)

\* HasText that tests the result only: a dictionary is never empty
HasTextOfResult(result) == DOMAIN result # {}

\* line 124: result and result.get("translated_text") and len(...) > 0
HasText(result) == result.translated_text # <<>>

\* lines 123-139: what process_audio_chunk does with the result of
\* transcribe_and_translate; l records how the call went
Finish(p, l, result) ==
    /\ pc' = [pc EXCEPT ![p] = "idle"]
    /\ frame' = [frame EXCEPT ![p] = NoFrame]
    /\ IF HasText(result)
       THEN /\ audio_buffers' = _clear_buffer(audio_buffers, room_id(p), user_id(p))
            /\ stream' = [stream EXCEPT ![KeyOf(p)] = <<>>]
            /\ last' = [last EXCEPT ![p] =
                          [l EXCEPT !.result = result, !.returned = <<>>]]
            /\ Return(p, frame[p].caller, TranslationResult(result, user_id(p)))
       ELSE /\ UNCHANGED <<audio_buffers, stream>>
            /\ last' = [last EXCEPT ![p] = [l EXCEPT !.result = result]]
            /\ Return(p, frame[p].caller, ReturnsNone)

\* the except branch of lines 114-120, then lines 123-139
Fail(p, call) == Finish(p, [last[p] EXCEPT !.raised = call], FailedResult)

\* the next collaborator call starts
Goto(p, call, f, l) ==
    /\ pc' = [pc EXCEPT ![p] = call]
    /\ frame' = [frame EXCEPT ![p] = f]
    /\ last' = [last EXCEPT ![p] = [l EXCEPT !.calls = Append(@, call)]]
    /\ UNCHANGED <<audio_buffers, stream, ret, dispatched>>

----------------------------------------------------------------------------
(* TranslationService.transcribe_and_translate, one step per collaborator call *)

\* what self.model.transcribe(task="transcribe") may do; the result may lack
\* its "language"
TranscribeOutcomes ==
    {Raised} \cup {Returned(t, l) : t \in TranscribedTexts,
                                    l \in {Absent} \cup {<<x>> : x \in Langs}}

\* what self.model.transcribe(task="translate") may do
TranslateOutcomes == {Raised} \cup {Returned(t, Absent) : t \in EnglishTexts}

\* what whisper.decode may do
DecodeOutcomes(prompt) == {Raised} \cup {Returned(t, Absent) : t \in DecodeTexts(prompt)}

\* transcription_result.get("language", "en")
DetectedLanguage(out) == IF out.language = Absent THEN "en" ELSE out.language[1]

\* lines 66-81 and the branch of lines 84-106 it leads to
TranscribeReturns(p) ==
    /\ pc[p] = "transcribe"
    /\ \E out \in TranscribeOutcomes :
         LET detected == DetectedLanguage(out)
             f == [frame[p] EXCEPT !.original_text = out.text,
                                   !.detected_lang = detected]
             l == [last[p] EXCEPT !.transcribed = out.text,
                                  !.detected_lang = detected]
             next == AfterTranscribe(detected, target_lang[p])
         IN  IF out.raised
             THEN Fail(p, "transcribe")
             ELSE IF next = "return"
             THEN Finish(p, l, Result(out.text, out.text, detected))
             ELSE IF next = "decode"
             THEN Goto(p, next, [f EXCEPT !.english_text = out.text],
                                [l EXCEPT !.prompted = out.text])
             ELSE Goto(p, next, f, l)
    /\ UNCHANGED <<mirror_mode, inbox, loop, sent, target_lang, nextId, since, http, removed, owned>>

\* lines 87-97: the translation into English returns, the prompt step starts
ToEnglishReturns(p) ==
    /\ pc[p] = "to_english"
    /\ \E out \in TranslateOutcomes :
         IF out.raised
         THEN Fail(p, "to_english")
         ELSE Goto(p, "decode", [frame[p] EXCEPT !.english_text = out.text],
                                [last[p] EXCEPT !.prompted = out.text])
    /\ UNCHANGED <<mirror_mode, inbox, loop, sent, target_lang, nextId, since, http, removed, owned>>

\* lines 143-152, 97-98, 108-112: whisper.decode returns or raises
DecodeReturns(p) ==
    /\ pc[p] = "decode"
    /\ LET f == frame[p]
       IN  \E out \in DecodeOutcomes(Prompt(f.english_text, target_lang[p])) :
             Finish(p, [last[p] EXCEPT !.raised = IF out.raised THEN "decode" ELSE ""],
                    Result(f.original_text,
                           _prompt_translate(f.english_text, target_lang[p], out),
                           f.detected_lang))
    /\ UNCHANGED <<mirror_mode, inbox, loop, sent, target_lang, nextId, since, http, removed, owned>>

\* lines 101-112: the direct translation into English returns or raises
DirectReturns(p) ==
    /\ pc[p] = "direct"
    /\ LET f == frame[p]
       IN  \E out \in TranslateOutcomes :
             IF out.raised
             THEN Fail(p, "direct")
             ELSE Finish(p, [last[p] EXCEPT !.translation = <<out.text>>],
                         Result(f.original_text, out.text, f.detected_lang))
    /\ UNCHANGED <<mirror_mode, inbox, loop, sent, target_lang, nextId, since, http, removed, owned>>

----------------------------------------------------------------------------
(* Callers of process_audio_chunk *)

\* the parameters of process_audio_chunk after self; none has a default
process_audio_chunk_parameters ==
    {"room_id", "user_id", "audio_chunk", "target_lang", "websocket"}

\* the keyword arguments websocket_endpoint passes
endpoint_arguments == {"room_id", "user_id", "audio_chunk", "target_lang"}

\* Python binds a call's arguments before the coroutine is created; a missing
\* required argument is a TypeError raised by the call expression
Binds(parameters, arguments) == parameters = arguments

\* a caller that passes every argument: the ids, the target language and the
\* websocket of the connected participant p
Call(p, lens) ==
    /\ ~LoopBlocked
    /\ loop[p] = "open"
    /\ Arrived < MaxFrames
    /\ \E n \in lens : Begin(p, Chunk(nextId[p], n), "api")
    /\ nextId' = [nextId EXCEPT ![p] = @ + 1]
    /\ UNCHANGED <<mirror_mode, inbox, loop, target_lang, http, removed, owned>>

CallProcessAudioChunk(p) == Call(p, ChunkLens)

\* the same caller with chunks around the threshold
CallNearThreshold(p) == Call(p, AlignLens)

----------------------------------------------------------------------------
(* main.py: websocket_endpoint *)

\* json_loads that takes every text for a ping command
json_loads_any_ping(text) == [ok |-> TRUE, object |-> TRUE, type |-> "ping"]

\* json.loads(message["text"]) and cmd.get("type")
json_loads(text) ==
    CASE text = "{\"type\": \"ping\"}" -> [ok |-> TRUE, object |-> TRUE, type |-> "ping"]
      [] text = "{\"type\": \"mute\"}" -> [ok |-> TRUE, object |-> TRUE, type |-> "mute"]
      [] text = "[1]" -> [ok |-> TRUE, object |-> FALSE, type |-> ""]
      [] OTHER -> [ok |-> FALSE, object |-> FALSE, type |-> ""]

\* RoomManager.remove_participant(room_id, websocket): the audio buffers after
\* the call.  The registry knows a participant by the room and the WebSocket it
\* was added with; it removes the buffer state held for that participant.
remove_participant(buffers, room, ws) ==
    LET key == buffer_key(room, ws)
    IN  IF key \in DOMAIN buffers
        THEN [k \in DOMAIN buffers \ {key} |-> buffers[k]]
        ELSE buffers

\* lines 164-170: the endpoint ends; the finally clause calls remove_participant
Leave(p) ==
    /\ audio_buffers' = remove_participant(audio_buffers, room_id(p), websocket(p))
    /\ removed' = [removed EXCEPT ![p] = @ + 1]

\* lines 90-112: accept, target_lang, join, connection_established.  When
\* add_participant (line 101) or the send (line 105) raises, line 164 catches
\* it and the endpoint ends before its loop starts
Connect(p) ==
    /\ ~LoopBlocked
    /\ loop[p] = "new"
    /\ \E t \in TargetLangs : target_lang' = [target_lang EXCEPT ![p] = t]
    /\ \/ /\ loop' = [loop EXCEPT ![p] = "open"]
          /\ sent' = [sent EXCEPT ![p] = Append(@, JsonMessage("connection_established"))]
          /\ UNCHANGED <<audio_buffers, removed>>
       \/ /\ loop' = [loop EXCEPT ![p] = "failed"]
          /\ Leave(p)
          /\ sent' = sent
    /\ UNCHANGED <<mirror_mode, pc, frame, last, ret, stream, inbox,
                   dispatched, nextId, since, http, owned>>

\* the transport takes a frame from the client
Deliver(p) ==
    /\ loop[p] = "open"
    /\ Len(inbox[p]) < MaxInbox
    /\ \A i \in DOMAIN inbox[p] : inbox[p][i].kind # "disconnect"
    /\ \/ /\ Arrived < MaxFrames
          /\ \E f \in {BinaryFrame(Chunk(nextId[p], n), pc[p] # "idle") : n \in ChunkLens}
                        \cup {TextFrame(t) : t \in TextFrames} :
               inbox' = [inbox EXCEPT ![p] = Append(@, f)]
          /\ nextId' = [nextId EXCEPT ![p] = @ + 1]
       \/ /\ inbox' = [inbox EXCEPT ![p] = Append(@, DisconnectFrame)]
          /\ nextId' = nextId
    /\ UNCHANGED <<mirror_mode, audio_buffers, pc, frame, last, ret, stream, loop, sent,
                   dispatched, target_lang, since, http, removed, owned>>

\* Breaks that takes every failure for a closed connection
BreaksOnAnyError(e) == TRUE

\* Breaks that looks for the text of a send on a closed connection
BreaksOnSendText(e) == Contains(e, <<"Cannot call">>) /\ Contains(e, <<"close message">>)

\* line 161: "Cannot call" in str(e) and "disconnect" in str(e)
Breaks(e) == Contains(e, <<"Cannot call">>) /\ Contains(e, <<"disconnect">>)

\* lines 158-170: the loop caught e.  When its text tells a closed connection
\* the loop breaks, the endpoint ends and remove_participant runs; otherwise
\* the loop goes on
Caught(p, e) ==
    IF Breaks(e)
    THEN /\ loop' = [loop EXCEPT ![p] = "done"]
         /\ Leave(p)
    ELSE UNCHANGED <<loop, audio_buffers, removed>>

\* lines 118-128: a text frame
LoopText(p) ==
    /\ ~LoopBlocked
    /\ loop[p] = "open"
    /\ inbox[p] # <<>>
    /\ Head(inbox[p]).kind = "text"
    /\ inbox' = [inbox EXCEPT ![p] = Tail(@)]
    /\ LET cmd == json_loads(Head(inbox[p]).text)
       IN  sent' = IF cmd.ok /\ cmd.object /\ cmd.type = "ping"
                   THEN [sent EXCEPT ![p] = Append(@, JsonMessage("pong"))]
                   ELSE sent
    /\ UNCHANGED <<mirror_mode, audio_buffers, pc, frame, last, ret, stream, loop,
                   dispatched, target_lang, nextId, since, http, removed, owned>>

\* lines 118-162: a binary frame.  The call of lines 136-141 binds no websocket,
\* so it raises a TypeError before process_audio_chunk runs; line 158 catches
\* it, its text holds no "Cannot call", and the loop goes on.
LoopBinary(p) ==
    /\ ~LoopBlocked
    /\ loop[p] = "open"
    /\ inbox[p] # <<>>
    /\ Head(inbox[p]).kind = "bytes"
    /\ inbox' = [inbox EXCEPT ![p] = Tail(@)]
    /\ IF Binds(process_audio_chunk_parameters, endpoint_arguments)
       THEN /\ Begin(p, Head(inbox[p]).bytes, "endpoint")
            /\ loop' = IF mirror_mode /\ ret'[p] = ReturnsBool(TRUE) /\ Breaks(NotIterable)
                       THEN [loop EXCEPT ![p] = "done"] ELSE loop
            /\ removed' = IF loop'[p] = "done" THEN [removed EXCEPT ![p] = @ + 1] ELSE removed
       ELSE /\ Caught(p, MissingArgument)
            /\ UNCHANGED <<pc, frame, last, ret, stream, sent, dispatched, since>>
    /\ UNCHANGED <<mirror_mode, target_lang, nextId, http, owned>>

\* websocket.receive() returns the disconnect message: neither text nor bytes
LoopDisconnect(p) ==
    /\ ~LoopBlocked
    /\ loop[p] = "open"
    /\ inbox[p] # <<>>
    /\ Head(inbox[p]).kind = "disconnect"
    /\ inbox' = [inbox EXCEPT ![p] = Tail(@)]
    /\ loop' = [loop EXCEPT ![p] = "disconnected"]
    /\ UNCHANGED <<mirror_mode, audio_buffers, pc, frame, last, ret, stream, sent,
                   dispatched, target_lang, nextId, since, http, removed, owned>>

\* lines 158-170: the next receive() raises 'Cannot call "receive" once a
\* disconnect message has been received.'; the loop breaks and the endpoint ends
LoopExit(p) ==
    /\ ~LoopBlocked
    /\ loop[p] = "disconnected"
    /\ Caught(p, ReceiveAfterDisconnect)
    /\ UNCHANGED <<mirror_mode, pc, frame, last, ret, stream, inbox, sent, dispatched,
                   target_lang, nextId, since, http, owned>>

\* lines 243-247: GET /toggle-mirror-mode; the query parameter defaults to False.
\* observed: the exchange is recorded
Toggle(observed) ==
    /\ ~LoopBlocked
    /\ \E query \in {Absent, <<TRUE>>, <<FALSE>>} :
         LET enabled == IF query = Absent THEN <<FALSE>> ELSE query
             mirror_enabled == toggle_mirror_mode(mirror_mode, enabled)
         IN  /\ mirror_mode' = mirror_enabled
             /\ http' = IF observed
                        THEN [NoExchange EXCEPT !.request = "toggle-mirror-mode",
                                                !.query = query,
                                                !.before = <<mirror_mode>>,
                                                !.status = 200,
                                                !.mirror_mode = <<mirror_enabled>>]
                        ELSE http
    /\ UNCHANGED <<audio_buffers, pc, frame, last, ret, stream, inbox, loop, sent,
                   dispatched, target_lang, nextId, since, removed, owned>>

ToggleMirrorMode == Toggle(FALSE)

ToggleMirrorModeObserved == Toggle(TRUE)

\* the rooms that have a connected participant
LiveRooms == {room_id(p) : p \in {q \in Participants : loop[q] \in {"open", "disconnected"}}}

\* f"room-{uuid.uuid4().hex[:6]}"
create_room(hex) == <<"room-", hex>>

\* lines 173-177: GET /create-room
CreateRoom ==
    /\ ~LoopBlocked
    /\ \E hex \in Hex6 :
         http' = [NoExchange EXCEPT !.request = "create-room",
                                    !.live = LiveRooms,
                                    !.status = 200,
                                    !.room_id = create_room(hex)]
    /\ UNCHANGED <<mirror_mode, audio_buffers, pc, frame, last, ret, stream, inbox, loop,
                   sent, dispatched, target_lang, nextId, since, removed, owned>>

\* translate_text_steps without the hop over English
translate_text_steps_direct(source, target) ==
    IF source = target THEN <<>> ELSE <<target>>

\* TranslationService.translate_text, lines 160-179: the target languages of
\* the _prompt_translate calls it makes, in order
translate_text_steps(source, target) ==
    IF source = target THEN <<>>
    ELSE IF target = "en" THEN <<"en">>
    ELSE IF source # "en" THEN <<"en", target>>
    ELSE <<target>>

\* one _prompt_translate call: its arguments and what it returned
PromptStep(text, lang, decoded) ==
    [text |-> text, lang |-> lang, output |-> _prompt_translate(text, lang, decoded)]

\* the exchange of a translate-text request that made the prompt steps calls;
\* translate_text returned translated and raised nothing, so line 199 answers
TranslateTextExchange(text, source, target, calls, raised, translated) ==
    [NoExchange EXCEPT !.request = "translate-text",
                       !.text = text, !.source_lang = source, !.target_lang = target,
                       !.calls = calls, !.raised = raised,
                       !.status = 200, !.translated_text = translated]

\* main.py lines 190-201 and translation_service.py lines 154-183:
\* POST /translate-text
TranslateText ==
    /\ ~LoopBlocked
    /\ \E text \in RequestTexts, source \in Langs, target \in Langs :
         LET steps == translate_text_steps(source, target)
         IN  IF steps = <<>>
             THEN http' = TranslateTextExchange(text, source, target, <<>>, FALSE, text)
             ELSE \E d1 \in DecodeOutcomes(Prompt(text, steps[1])) :
                    LET s1 == PromptStep(text, steps[1], d1)
                    IN  IF Len(steps) = 1
                        THEN http' = TranslateTextExchange(text, source, target, <<s1>>,
                                                           d1.raised, s1.output)
                        ELSE \E d2 \in DecodeOutcomes(Prompt(s1.output, steps[2])) :
                               LET s2 == PromptStep(s1.output, steps[2], d2)
                               IN  http' = TranslateTextExchange(
                                               text, source, target, <<s1, s2>>,
                                               d1.raised \/ d2.raised, s2.output)
    /\ UNCHANGED <<mirror_mode, audio_buffers, pc, frame, last, ret, stream, inbox, loop,
                   sent, dispatched, target_lang, nextId, since, removed, owned>>

\* a tenth of a second passes; the program reads no clock, so the time since a
\* run started is counted up to min_process_interval only
Tick ==
    /\ \E p \in Participants : since[p] < min_process_interval
    /\ since' = [p \in Participants |->
                   IF since[p] < min_process_interval THEN since[p] + 1 ELSE since[p]]
    /\ UNCHANGED <<mirror_mode, audio_buffers, pc, frame, last, ret, stream, inbox, loop,
                   sent, dispatched, target_lang, nextId, http, removed, owned>>

----------------------------------------------------------------------------

(* Specifications *)

\* the whole program: the endpoints, and callers that pass every argument
Next ==
    \/ ToggleMirrorMode
    \/ \E p \in Participants :
         \/ CallProcessAudioChunk(p)
         \/ CallNearThreshold(p)
         \/ TranscribeReturns(p)
         \/ ToEnglishReturns(p)
         \/ DecodeReturns(p)
         \/ DirectReturns(p)
         \/ Connect(p)
         \/ Deliver(p)
         \/ LoopText(p)
         \/ LoopBinary(p)
         \/ LoopDisconnect(p)
         \/ LoopExit(p)
    \/ Tick
    \/ ToggleMirrorModeObserved
    \/ CreateRoom
    \/ TranslateText

Spec == Init /\ [][Next]_vars

\* the whole program with one participant
NextKey ==
    \/ ToggleMirrorMode
    \/ CallProcessAudioChunk("p1")
    \/ TranscribeReturns("p1")
    \/ ToEnglishReturns("p1")
    \/ DecodeReturns("p1")
    \/ DirectReturns("p1")
    \/ Connect("p1")
    \/ Deliver("p1")
    \/ LoopText("p1")
    \/ LoopBinary("p1")
    \/ LoopDisconnect("p1")
    \/ LoopExit("p1")

SpecKey == Init /\ [][NextKey]_vars

\* AudioProcessor and TranslationService under callers that pass every argument
NextProcessor ==
    \/ ToggleMirrorMode
    \/ \E p \in Participants :
         \/ Connect(p)
         \/ CallProcessAudioChunk(p)
         \/ TranscribeReturns(p)
         \/ ToEnglishReturns(p)
         \/ DecodeReturns(p)
         \/ DirectReturns(p)

SpecProcessor == Init /\ [][NextProcessor]_vars

\* websocket_endpoint alone: no other caller of process_audio_chunk
NextEndpoint ==
    \/ ToggleMirrorMode
    \/ \E p \in Participants :
         \/ Connect(p)
         \/ Deliver(p)
         \/ LoopText(p)
         \/ LoopBinary(p)
         \/ LoopDisconnect(p)
         \/ LoopExit(p)

SpecEndpoint == Init /\ [][NextEndpoint]_vars

\* websocket_endpoint alone, its coroutines scheduled fairly: the event loop
\* resumes a connection's coroutine whenever its receive() can return or raise
EndpointFairness ==
    \A p \in Participants :
        /\ WF_vars(LoopText(p))
        /\ WF_vars(LoopBinary(p))
        /\ WF_vars(LoopDisconnect(p))
        /\ WF_vars(LoopExit(p))

SpecEndpointFair == SpecEndpoint /\ EndpointFairness

\* AudioProcessor and TranslationService for one participant, with time passing
NextDebounce ==
    \/ ToggleMirrorMode
    \/ Tick
    \/ Connect("p1")
    \/ CallProcessAudioChunk("p1")
    \/ TranscribeReturns("p1")
    \/ ToEnglishReturns("p1")
    \/ DecodeReturns("p1")
    \/ DirectReturns("p1")

SpecDebounce == Init /\ [][NextDebounce]_vars

\* the HTTP endpoints, each exchange recorded, and connections opening
NextHttp ==
    \/ ToggleMirrorModeObserved
    \/ CreateRoom
    \/ TranslateText
    \/ \E p \in Participants : Connect(p)

SpecHttp == Init /\ [][NextHttp]_vars

\* AudioProcessor and TranslationService for one participant whose chunks are
\* around the threshold
NextAlign ==
    \/ ToggleMirrorMode
    \/ Connect("p1")
    \/ CallNearThreshold("p1")
    \/ TranscribeReturns("p1")
    \/ ToEnglishReturns("p1")
    \/ DecodeReturns("p1")
    \/ DirectReturns("p1")

SpecAlign == Init /\ [][NextAlign]_vars

\* the chunks appended for the pair since its last clear
Owned(pair) == IF pair \in DOMAIN owned THEN owned[pair] ELSE <<>>

\* the number of chunks held for the pairs
RECURSIVE Held(_)
Held(pairs) ==
    IF pairs = {} THEN 0
    ELSE LET pair == CHOOSE q \in pairs : TRUE
         IN  Len(owned[pair]) + Held(pairs \ {pair})

\* _add_to_buffer(room_id, user_id, audio_chunk) for a room of the path and a
\* user id of line 97
AddToBuffer ==
    /\ Held(DOMAIN owned) < MaxFrames
    /\ \E room \in RoomPaths, user \in Uuid4Strings, n \in ChunkLens :
         LET pair == <<room, user>>
             audio_chunk == Chunk(Len(Owned(pair)) + 1, n)
         IN  /\ audio_buffers' = _add_to_buffer(audio_buffers, room, user, audio_chunk).buffers
             /\ owned' = (pair :> (Owned(pair) \o audio_chunk)) @@ owned
    /\ UNCHANGED <<mirror_mode, pc, frame, last, ret, stream, inbox, loop, sent,
                   dispatched, target_lang, nextId, since, http, removed>>

\* _clear_buffer(room_id, user_id) for a pair that was appended to
ClearBuffer ==
    /\ \E pair \in DOMAIN owned :
         /\ owned[pair] # <<>>
         /\ audio_buffers' = _clear_buffer(audio_buffers, pair[1], pair[2])
         /\ owned' = (pair :> <<>>) @@ owned
    /\ UNCHANGED <<mirror_mode, pc, frame, last, ret, stream, inbox, loop, sent,
                   dispatched, target_lang, nextId, since, http, removed>>

\* the buffer methods of AudioProcessor under the ids websocket_endpoint passes
NextBuffers ==
    \/ AddToBuffer
    \/ ClearBuffer

SpecBuffers == Init /\ [][NextBuffers]_vars

----------------------------------------------------------------------------
(* Claims *)

\* the stored buffer of p, empty when the key has none
Buffer(p) == IF KeyOf(p) \in DOMAIN audio_buffers THEN audio_buffers[KeyOf(p)] ELSE <<>>

\* the last call of p appended, and the buffer has not been cleared since
Appended(p) ==
    /\ last[p].gate \in {"ValueError", "short", "run"}
    /\ ~(pc[p] = "idle" /\ ret[p].kind = "dict")

\* C1: for every key the stored buffer is never longer than the cap of
\* 16000 * 4 * 5 bytes, it is the trailing min(total, cap) bytes of the
\* concatenation of the chunks appended since the last clear, and the bytes the
\* append returned are the stored bytes.
C1_SlidingWindow ==
    \A p \in Participants :
        /\ ByteLen(Buffer(p)) <= 320000
        /\ Buffer(p) = LastBytes(stream[KeyOf(p)],
                                 Min(ByteLen(stream[KeyOf(p)]), 320000))
        /\ Appended(p) => last[p].returned = Buffer(p)

\* C1 witness: two chunks were appended with no clear between them, more than
\* the cap in all, and the buffer holds exactly the cap
C1_Witness ==
    \E p \in Participants :
        /\ Len(stream[KeyOf(p)]) >= 2
        /\ ByteLen(stream[KeyOf(p)]) > 320000
        /\ ByteLen(Buffer(p)) = 320000
        /\ Appended(p)

\* transcribe_and_translate has its first transcription back, with a language
Transcribed(p) == last[p].gate = "run" /\ last[p].detected_lang # ""

\* C4: when the detected language equals the target language, the translated
\* text is the transcribed text and the first transcription is the only
\* collaborator call of the invocation.
C4_SameLanguageShortcut ==
    \A p \in Participants :
        Transcribed(p) /\ last[p].detected_lang = target_lang[p] =>
            /\ pc[p] = "idle"
            /\ last[p].calls = <<"transcribe">>
            /\ last[p].result.translated_text = last[p].transcribed
            /\ last[p].result.original_text = last[p].transcribed

\* C4 witness: a run ended on the shortcut with a text
C4_Witness ==
    \E p \in Participants :
        /\ Transcribed(p)
        /\ last[p].detected_lang = target_lang[p]
        /\ last[p].transcribed = <<"hola">>
        /\ ret[p].kind = "dict"
        /\ ret[p].translated_text = <<"hola">>

\* the number of times call is among the collaborator calls of p's last invocation
Calls(p, call) == Cardinality({i \in DOMAIN last[p].calls : last[p].calls[i] = call})

\* C5 as claimed: the translation into English (the first hop) is made if
\* and only if neither the target nor the detected language is English.
C5_TwoHopIffClaimed ==
    \A p \in Participants :
        Transcribed(p) =>
            (Calls(p, "to_english") = 1
                <=> target_lang[p] # "en" /\ last[p].detected_lang # "en")

\* the two-hop fallback applies: neither language is English and they differ
TwoHop(p) ==
    /\ target_lang[p] # "en"
    /\ last[p].detected_lang # "en"
    /\ last[p].detected_lang # target_lang[p]

\* C5 amended: the two-hop fallback is taken if and only if the target is not
\* English, the detected language is not English and the two differ; then
\* exactly one translation into English is made, and the prompt step follows
\* it once it has returned; otherwise no translation into English is made.
C5_TwoHopIff ==
    \A p \in Participants :
        Transcribed(p) =>
            IF TwoHop(p)
            THEN \/ /\ last[p].calls = <<"transcribe", "to_english">>
                    /\ pc[p] = "to_english" \/ last[p].raised = "to_english"
                 \/ /\ last[p].calls = <<"transcribe", "to_english", "decode">>
                    /\ last[p].raised # "to_english"
            ELSE Calls(p, "to_english") = 0

\* C5 witness: a run took both hops and ended
C5_Witness ==
    \E p \in Participants :
        /\ Transcribed(p)
        /\ TwoHop(p)
        /\ pc[p] = "idle"
        /\ last[p].calls = <<"transcribe", "to_english", "decode">>
        /\ ret[p].kind = "dict"

\* C6: when the first transcription gives an empty or whitespace-only text, the
\* invocation returns no translation result, whatever the languages.
C6_BlankTranscriptionNoResult ==
    \A p \in Participants :
        /\ Transcribed(p)
        /\ pc[p] = "idle"
        /\ last[p].transcribed = <<>> \/ isspace(last[p].transcribed)
        => ret[p].kind = "None"

C9_ClearedOnlyOnResult ==
    [][\A p \in Participants :
         /\ Buffer(p) # <<>> /\ Buffer(p)' = <<>> =>
              /\ pc[p] # "idle" /\ pc'[p] = "idle"
              /\ ret'[p].kind = "dict"
              /\ ret'[p].translated_text # <<>>
         /\ pc[p] # "idle" /\ pc'[p] = "idle" /\ ret'[p].kind = "None" =>
              /\ Buffer(p)' = frame[p].complete_buffer
              /\ Buffer(p)' = Buffer(p)
              /\ Buffer(p)' # <<>>]_vars

\* C9 witness: a run ended without a result and left the buffer as the append
\* had returned it
C9_Witness ==
    \E p \in Participants :
        /\ last[p].gate = "run"
        /\ pc[p] = "idle"
        /\ ret[p].kind = "None"
        /\ Buffer(p) # <<>>
        /\ Buffer(p) = last[p].returned

\* C10: while the pipeline run of one participant is in flight, a chunk of
\* another connected participant can be taken, appended and gated.
C10_OthersNotBlocked ==
    \A p, q \in Participants :
        /\ p # q
        /\ pc[p] # "idle"
        /\ loop[q] = "open"
        /\ Arrived < MaxFrames
        => ENABLED CallProcessAudioChunk(q)

\* the connection loop of p takes a binary frame from its websocket in this step
ReceivesBinary(p) ==
    /\ loop[p] = "open"
    /\ inbox[p] # <<>>
    /\ Head(inbox[p]).kind = "bytes"
    /\ inbox'[p] = Tail(inbox[p])

\* after this step the buffer of p ends with the bytes of chunk (with the last
\* 320000 of them when chunk is longer)
KeepsBytes(p, chunk) ==
    LastBytes(Buffer(p)', Min(ByteLen(chunk), 320000))
        = LastBytes(chunk, Min(ByteLen(chunk), 320000))

C3_MirrorEchoes ==
    [][\A p \in Participants :
         ReceivesBinary(p) /\ mirror_mode =>
              /\ sent'[p] = Append(sent[p], BytesMessage(Head(inbox[p]).bytes))
              /\ audio_buffers' = audio_buffers
              /\ \A q \in Participants : pc'[q] = "idle"
              /\ \A q \in Participants \ {p} :
                   sent'[q] = sent[q] /\ dispatched'[q] = dispatched[q]]_vars

\* C8: with mirror mode off, a binary frame the loop takes is appended to the
\* buffer; when that leaves fewer than 8000 samples no pipeline run starts, and
\* when it leaves at least 8000 samples one run starts on the whole buffer.
C8_ThresholdGate ==
    [][\A p \in Participants :
         ReceivesBinary(p) /\ ~mirror_mode =>
              /\ KeepsBytes(p, Head(inbox[p]).bytes)
              /\ ByteLen(Buffer(p)') < 8000 * 4 => pc'[p] = "idle"
              /\ ByteLen(Buffer(p)') % 4 = 0 /\ ByteLen(Buffer(p)') >= 8000 * 4 =>
                   /\ pc'[p] = "transcribe"
                   /\ frame'[p].complete_buffer = Buffer(p)'
                   /\ last'[p].calls = <<"transcribe">>]_vars

\* what websocket_endpoint does never changes the state of the AudioProcessor
\* but the mirror flag: the invariants of SpecProcessor carry over to Spec
EndpointLeavesProcessor ==
    [][UNCHANGED <<audio_buffers, pc, frame, last, ret, stream, dispatched>>]_vars

\* C11: two successive pipeline runs of a key start at least 0.5 s apart: a
\* chunk handled less than 0.5 s after the call before it started a run starts
\* no run, even when the buffer holds 8000 samples.
C11_MinimumInterval ==
    [][\A p \in Participants :
         pc[p] = "idle" /\ pc'[p] = "transcribe" /\ last[p].gate = "run" =>
              since[p] >= min_process_interval]_vars

\* the frames the segments of b come from, in order
Ids(b) == [i \in DOMAIN b |-> b[i].id]

Increasing(ids) == \A i, j \in DOMAIN ids : i < j => ids[i] < ids[j]

\* the step appends a chunk of p and starts a pipeline run on the result
StartsRun(p) ==
    /\ Len(stream[KeyOf(p)]') > Len(stream[KeyOf(p)])
    /\ pc'[p] = "transcribe"

ReceivesText(p) ==
    /\ loop[p] = "open"
    /\ inbox[p] # <<>>
    /\ Head(inbox[p]).kind = "text"
    /\ inbox'[p] = Tail(inbox[p])

\* C13: the message loop of a connection ends only on a disconnect of the
\* transport: it leaves the open state only by receiving the disconnect
\* message and ends only after that, and the step that handles a text frame or
\* a binary frame, failing or not, leaves the loop open for the next frame.
C13_ExitsOnDisconnectOnly ==
    [][\A p \in Participants :
         /\ loop[p] = "open" /\ loop'[p] # "open" =>
              /\ inbox[p] # <<>>
              /\ Head(inbox[p]).kind = "disconnect"
              /\ loop'[p] = "disconnected"
         /\ loop[p] # "done" /\ loop'[p] = "done" => loop[p] = "disconnected"
         /\ ReceivesText(p) \/ ReceivesBinary(p) => loop'[p] = "open"]_vars

\* C13 witness: two frames were handled, each with a failure (no reply was
\* sent for either), and the loop is still open
C13_Witness ==
    \E p \in Participants :
        /\ loop[p] = "open"
        /\ nextId[p] = 3
        /\ inbox[p] = <<>>
        /\ sent[p] = <<JsonMessage("connection_established")>>

\* C14: the step that handles the text frame {"type": "ping"} sends exactly one
\* pong, on the same connection; the step that handles a text frame that is no
\* JSON sends nothing; neither sends to another connection, changes a buffer
\* or the mirror flag, or closes the loop.
C14_PingPong ==
    [][\A p \in Participants :
         ReceivesText(p) =>
              /\ sent'[p] = IF Head(inbox[p]).text = "{\"type\": \"ping\"}"
                            THEN Append(sent[p], JsonMessage("pong"))
                            ELSE sent[p]
              /\ \A q \in Participants \ {p} : sent'[q] = sent[q]
              /\ audio_buffers' = audio_buffers
              /\ mirror_mode' = mirror_mode
              /\ loop'[p] = "open"]_vars

\* C14 witness: a ping and a frame that gets no reply were handled; the only
\* reply is one pong
C14_Witness ==
    \E p \in Participants :
        /\ loop[p] = "open"
        /\ nextId[p] = 3
        /\ inbox[p] = <<>>
        /\ sent[p] = <<JsonMessage("connection_established"), JsonMessage("pong")>>

C16_ToggleFlipsOrSets ==
    http.request = "toggle-mirror-mode" =>
        /\ http.mirror_mode = IF http.query = Absent
                              THEN <<~http.before[1]>>
                              ELSE http.query
        /\ http.mirror_mode = <<mirror_mode>>

\* C17: a translate-text request in which a collaborator call failed is
\* answered with an error response, not with a normal response carrying text.
C17_TextFailureIsError ==
    http.request = "translate-text" /\ http.raised => http.status = 500

\* C18: the identifier a create-room request returns differs from the
\* identifier of every room that is live when the request is made.
C18_FreshRoomId ==
    http.request = "create-room" => http.room_id \notin http.live

\* C20: a translate-text request with source = target returns the text with no
\* prompt step; with target en it makes one prompt step, on the text, into en;
\* with another target it makes one prompt step, on the text, when the source
\* is en, and two when it is not: the text into en, then the output of that
\* step into the target.  The response carries the output of the last step.
C20_TextChain ==
    http.request = "translate-text" =>
        LET c == http.calls
        IN  /\ http.status = 200
            /\ IF http.source_lang = http.target_lang
               THEN c = <<>> /\ http.translated_text = http.text
               ELSE /\ IF http.target_lang = "en" \/ http.source_lang = "en"
                       THEN /\ Len(c) = 1
                            /\ c[1].text = http.text
                            /\ c[1].lang = http.target_lang
                       ELSE /\ Len(c) = 2
                            /\ c[1].text = http.text
                            /\ c[1].lang = "en"
                            /\ c[2].text = c[1].output
                            /\ c[2].lang = http.target_lang
                    /\ http.translated_text = c[Len(c)].output

\* C20 witness: a request from es into fr made both prompt steps, neither
\* failed, and the response carries the second one's output
C20_Witness ==
    /\ http.request = "translate-text"
    /\ http.source_lang = "es"
    /\ http.target_lang = "fr"
    /\ Len(http.calls) = 2
    /\ ~http.raised
    /\ http.calls[1].output = <<"salut">>
    /\ http.translated_text = <<"salut">>

\* C19: in an invocation whose target is English and whose detected language
\* is not, the collaborator calls are the transcription and one direct
\* translation, in that order, and no prompt step; when the direct translation
\* has returned, the translated text is its text and the original text is the
\* transcribed one.
C19_DirectIntoEnglish ==
    \A p \in Participants :
        Transcribed(p) /\ target_lang[p] = "en" /\ last[p].detected_lang # "en" =>
            /\ last[p].calls = <<"transcribe", "direct">>
            /\ pc[p] \in {"direct", "idle"}
            /\ last[p].prompted = <<>>
            /\ pc[p] = "idle" /\ last[p].raised = "" =>
                 /\ last[p].translation # Absent
                 /\ last[p].result.translated_text = last[p].translation[1]
                 /\ last[p].result.original_text = last[p].transcribed

\* C19 witness: a run on Spanish speech with target English ended with the
\* text of the direct translation
C19_Witness ==
    \E p \in Participants :
        /\ Transcribed(p)
        /\ target_lang[p] = "en"
        /\ last[p].detected_lang = "es"
        /\ last[p].transcribed = <<"hola">>
        /\ pc[p] = "idle"
        /\ last[p].calls = <<"transcribe", "direct">>
        /\ ret[p].kind = "dict"
        /\ ret[p].translated_text = <<"hello">>

\* the transport holds a disconnect for the connection of p
DisconnectDelivered(p) == \E i \in DOMAIN inbox[p] : inbox[p][i].kind = "disconnect"

\* C21: once the transport has delivered a disconnect to a connection, its
\* message loop eventually exits; remove_participant is called exactly once
\* for a connection whose endpoint has ended, whether it ended from the loop
\* or from a failure before the loop started, and never for one that has not.
C21_LeavesOnce ==
    /\ [](\A p \in Participants :
            removed[p] = IF loop[p] \in {"done", "failed"} THEN 1 ELSE 0)
    /\ \A p \in Participants :
         DisconnectDelivered(p) ~> (loop[p] = "done" /\ removed[p] = 1)

\* C21 witness: one connection left through its loop after a disconnect, the
\* other failed before its loop started; remove_participant ran once for each
C21_Witness ==
    \E p, q \in Participants :
        /\ loop[p] = "done"
        /\ sent[p] # <<>>
        /\ removed[p] = 1
        /\ loop[q] = "failed"
        /\ sent[q] = <<>>
        /\ removed[q] = 1

\* the buffer the pair resolves to, empty when its key has none
Stored(pair) ==
    LET key == buffer_key(pair[1], pair[2])
    IN  IF key \in DOMAIN audio_buffers THEN audio_buffers[key] ELSE <<>>

\* C22: two distinct (room id, user id) pairs never resolve to the same buffer
\* key, and a step that appends to or clears the buffer of one pair leaves the
\* buffer of every other pair as it was.
C22_BuffersIsolated ==
    /\ [](\A pair, other \in DOMAIN owned :
            pair # other => buffer_key(pair[1], pair[2]) # buffer_key(other[1], other[2]))
    /\ [][\A pair \in RoomPaths \X Uuid4Strings :
            Owned(pair)' = Owned(pair) => Stored(pair)' = Stored(pair)]_vars

\* C22 witness: two pairs, the room of one an extension of the other's by an
\* underscore and more, with the same user id; one holds bytes, the other was
\* appended to and cleared
C22_Witness ==
    \E pair, other \in DOMAIN owned :
        /\ pair[1] = <<"a">>
        /\ other[1] = <<"a", "_", "b", "-", "4">>
        /\ pair[2] = other[2]
        /\ Stored(pair) # <<>>
        /\ owned[other] = <<>>
        /\ Stored(other) = <<>>

\* the chunk that this step appends for p, with the bytes its buffer held
Extended(p) == Buffer(p) \o <<stream[KeyOf(p)]'[Len(stream[KeyOf(p)]')]>>

\* C23: with mirror mode off, a chunk whose append leaves the buffer's length
\* no multiple of 4 reaches no collaborator: the call returns None and the
\* bytes, the chunk's included, stay in the buffer; a later chunk whose append
\* makes the length a multiple of 4 again goes through the threshold gate, and
\* the run it starts gets every byte the buffer holds.
C23_MisalignedRetained ==
    [][\A p \in Participants :
         Len(stream[KeyOf(p)]') > Len(stream[KeyOf(p)]) =>
           LET kept == LastBytes(Extended(p), Min(ByteLen(Extended(p)), 320000))
           IN  /\ Buffer(p)' = kept
               /\ ByteLen(kept) % 4 # 0 =>
                    /\ pc'[p] = "idle"
                    /\ ret'[p] = ReturnsNone
                    /\ last'[p].calls = <<>>
               /\ ByteLen(Buffer(p)) % 4 # 0 /\ ByteLen(kept) % 4 = 0 =>
                    IF ByteLen(kept) >= 32000
                    THEN /\ pc'[p] = "transcribe"
                         /\ frame'[p].complete_buffer = kept
                         /\ last'[p].calls = <<"transcribe">>
                    ELSE /\ pc'[p] = "idle"
                         /\ ret'[p] = ReturnsNone]_vars

\* C23 witness: a chunk of 2 bytes was appended and kept without a run; the
\* next chunk brought the buffer to 8000 whole samples, and the run in flight
\* has both chunks
C23_Witness ==
    \E p \in Participants :
        /\ pc[p] = "transcribe"
        /\ stream[KeyOf(p)] = <<Seg(1, 0, 2), Seg(2, 0, 31998)>>
        /\ frame[p].complete_buffer = stream[KeyOf(p)]
        /\ Buffer(p) = stream[KeyOf(p)]

====
